---- MODULE Spec2Model ----
(***************************************************************************)
(* Model of src/tauri/src-tauri/src/global_shortcut.rs: the Hotkey Manager *)
(* (register_global_hotkey, unregister_global_hotkey, get_current_hotkey)  *)
(* over one Mutex<Option<String>>, together with the two collaborators it  *)
(* calls: the OS shortcut subsystem (parse, on_shortcut, register,         *)
(* unregister, press/release notifications) and the application event bus. *)
(*                                                                         *)
(* The OS subsystem is an external collaborator.  Every call into it that  *)
(* returns a Result in the source may succeed or fail here; a failed call  *)
(* leaves the subsystem as it was.                                         *)
(***************************************************************************)
EXTENDS Integers, Sequences, FiniteSets, TLC

VARIABLES
    current,       \* GlobalShortcutState.current_shortcut: None or a text
    lockOwner,     \* holder of the Mutex guard, or NoOwner
    osRegistered,  \* descriptors this component has registered with the OS
    handlers,      \* descriptor -> callback installed by on_shortcut
    events,        \* events emitted on the application event bus, in order
    pc,            \* caller -> position in its handler
    arg,           \* caller -> shortcut text passed to register
    snap,          \* caller -> value of current when it took the lock
    res,           \* caller -> result of the call (Ok or an error prefix)
    ret,           \* caller -> Option<String> returned by get_current_hotkey
    calls,         \* caller -> OS subsystem calls made by the running call
    lastMut,       \* last completed register/unregister: [op, res, arg],
                   \* arg being the text a successful register stored
    succeeded      \* texts for which some register call returned Ok

vars == <<current, lockOwner, osRegistered, handlers, events, pc, arg, snap,
          res, ret, calls, lastMut, succeeded>>

----------------------------------------------------------------------------
(* Bounds *)

NumCallers == 2
MaxEvents == 1

Callers == 1..NumCallers

----------------------------------------------------------------------------
(* Values *)

None == "None"
NoOwner == 0
NoParse == "NoParse"
NoArg == "-"

\* Shortcut texts a front-end may pass.  "Ctrl+K" and "ctrl+k" are two texts
\* of one key combination; "not a valid shortcut" is rejected by the parser.
Texts == {"Ctrl+K", "ctrl+k", "Ctrl+J", "not a valid shortcut"}

Descriptors == {"CONTROL+KeyK", "CONTROL+KeyJ"}

\* str::parse::<Shortcut>(): tokens are matched case-insensitively, so
\* several texts share one descriptor; an unknown token is an error.
Parse(t) ==
    CASE t \in {"Ctrl+K", "ctrl+k"} -> "CONTROL+KeyK"
      [] t = "Ctrl+J" -> "CONTROL+KeyJ"
      [] OTHER -> NoParse

Parses(t) == Parse(t) # NoParse

Ok == "Ok"
ErrInvalidFormat == "Invalid shortcut format: "
ErrRegister == "Failed to register shortcut: "
ErrRemoveHandler == "Failed to remove handler: "
ErrUnregister == "Failed to unregister: "
Pending == "pending"

Results == {Ok, ErrInvalidFormat, ErrRegister, ErrRemoveHandler, ErrUnregister}

\* Callbacks on_shortcut can leave on a descriptor
NoHandler == "none"     \* on_shortcut never succeeded for it
EmptyHandler == "empty" \* |_, _, _| {}
EmitHandler == "emit"   \* the closure of lines 56-67

\* An entry of the log of OS subsystem calls: the call, its descriptor, the
\* callback passed (on_shortcut only) and the Result as the handler sees it:
\* "ok" or "err" where the Result is inspected (`?`), "dropped" where it is
\* thrown away (`let _ =`).
Seen(ok, kept) == IF ~kept THEN "dropped" ELSE IF ok THEN "ok" ELSE "err"

OsCall(name, d, h, r) == [call |-> name, sc |-> d, h |-> h, r |-> r]

NoMut == [op |-> "none", arg |-> NoArg, res |-> Pending]

----------------------------------------------------------------------------
(* Initial state *)

\* The state in which `stored` is the Current Shortcut and, when it parses,
\* is the shortcut registered with the OS with the emitting callback.
InitWith(stored) ==
    /\ current = stored
    /\ lockOwner = NoOwner
    /\ osRegistered = IF Parses(stored) THEN {Parse(stored)} ELSE {}
    /\ handlers = [d \in Descriptors |->
                     IF d = Parse(stored) THEN EmitHandler ELSE NoHandler]
    /\ events = <<>>
    /\ pc = [p \in Callers |-> "idle"]
    /\ arg = [p \in Callers |-> NoArg]
    /\ snap = [p \in Callers |-> None]
    /\ res = [p \in Callers |-> Pending]
    /\ ret = [p \in Callers |-> None]
    /\ calls = [p \in Callers |-> <<>>]
    /\ lastMut = NoMut
    /\ succeeded = {}

\* GlobalShortcutState::new(): current_shortcut is Mutex::new(None)
Init == InitWith(None)

\* The handlers as functions of the state they are handed: any text may be
\* the stored Current Shortcut.
InitStored == \E stored \in Texts \cup {None} : InitWith(stored)

----------------------------------------------------------------------------
(* OS shortcut subsystem *)

\* app.global_shortcut().on_shortcut(d, h): installs callback h on d
OnShortcut(p, d, h, ok, kept) ==
    /\ handlers' = IF ok THEN [handlers EXCEPT ![d] = h] ELSE handlers
    /\ calls' = [calls EXCEPT
                   ![p] = Append(@, OsCall("on_shortcut", d, h, Seen(ok, kept)))]
    /\ UNCHANGED osRegistered

\* app.global_shortcut().register(d)
OsRegister(p, d, ok, kept) ==
    /\ osRegistered' = IF ok THEN osRegistered \cup {d} ELSE osRegistered
    /\ calls' = [calls EXCEPT
                   ![p] = Append(@, OsCall("register", d, NoHandler, Seen(ok, kept)))]
    /\ UNCHANGED handlers

\* app.global_shortcut().unregister(d)
OsUnregister(p, d, ok, kept) ==
    /\ osRegistered' = IF ok THEN osRegistered \ {d} ELSE osRegistered
    /\ calls' = [calls EXCEPT
                   ![p] = Append(@, OsCall("unregister", d, NoHandler, Seen(ok, kept)))]
    /\ UNCHANGED handlers

\* The event the installed closure emits for a notification state
EventName(state) ==
    IF state = "Pressed" THEN "hotkey-pressed" ELSE "hotkey-released"

\* Emitted with the two match arms of lines 58-65 swapped
EmittedSwapped(h, state) ==
    IF h = EmitHandler
    THEN <<EventName(IF state = "Pressed" THEN "Released" ELSE "Pressed")>>
    ELSE <<>>

\* What the callback h does on a notification: the emitting closure calls
\* app_for_handler.emit once; the empty closure does nothing.
Emitted(h, state) == IF h = EmitHandler THEN <<EventName(state)>> ELSE <<>>

\* The OS reports a press or a release of a registered shortcut and the
\* subsystem runs the callback installed on it.
Notify(d, state) ==
    /\ d \in osRegistered
    /\ Len(events) < MaxEvents
    /\ events' = events \o Emitted(handlers[d], state)
    /\ UNCHANGED <<current, lockOwner, osRegistered, handlers, pc, arg, snap,
                   res, ret, calls, lastMut, succeeded>>

----------------------------------------------------------------------------
(* The Mutex *)

\* state.current_shortcut.lock().unwrap()
Lock(p) ==
    /\ lockOwner = NoOwner
    /\ lockOwner' = p
    /\ snap' = [snap EXCEPT ![p] = current]

\* Unlock done by hand on the success path only: an early error return keeps
\* the lock
UnlockOnSuccessOnly(p) ==
    lockOwner' = IF lockOwner = p /\ res[p] = Ok THEN NoOwner ELSE lockOwner

\* the guard `current` goes out of scope when the handler returns
Unlock(p) == lockOwner' = IF lockOwner = p THEN NoOwner ELSE lockOwner

----------------------------------------------------------------------------
(* Caller-local bookkeeping *)

Goto(p, label) == pc' = [pc EXCEPT ![p] = label]

SetRes(p, r) == res' = [res EXCEPT ![p] = r]

\* A front-end invokes a command: the handler starts with fresh locals
Begin(p, label, t) ==
    /\ pc[p] = "idle"
    /\ Goto(p, label)
    /\ arg' = [arg EXCEPT ![p] = t]
    /\ UNCHANGED <<current, lockOwner, osRegistered, handlers, events, snap,
                   res, ret, calls, lastMut, succeeded>>

\* The handler returns: its guard is dropped and its locals are gone
Finish(p) ==
    /\ Unlock(p)
    /\ Goto(p, "idle")
    /\ arg' = [arg EXCEPT ![p] = NoArg]
    /\ snap' = [snap EXCEPT ![p] = None]
    /\ res' = [res EXCEPT ![p] = Pending]
    /\ ret' = [ret EXCEPT ![p] = None]
    /\ calls' = [calls EXCEPT ![p] = <<>>]

----------------------------------------------------------------------------
(* register_global_hotkey(app, state, shortcut) *)

\* The command is invoked; its argument is first read after the lock is
\* taken, and is drawn there.
RegCall(p) == Begin(p, "r_lock", NoArg)

\* RegLock with the guard of line 39 scoped to the read of the stored text:
\* it is dropped before the OS subsystem is called
RegLockScoped(p, t) ==
    /\ pc[p] = "r_lock"
    /\ lockOwner = NoOwner
    /\ snap' = [snap EXCEPT ![p] = current]
    /\ arg' = [arg EXCEPT ![p] = t]
    /\ Goto(p, IF current # None /\ Parses(current)
               THEN "r_cleanup_handler" ELSE "r_parse")
    /\ UNCHANGED <<current, lockOwner, osRegistered, handlers, events, res,
                   ret, calls, lastMut, succeeded>>

\* line 39-41: take the lock, look at the stored shortcut and re-parse it
RegLock(p, t) ==
    /\ pc[p] = "r_lock"
    /\ Lock(p)
    /\ arg' = [arg EXCEPT ![p] = t]
    /\ Goto(p, IF current # None /\ Parses(current)
               THEN "r_cleanup_handler" ELSE "r_parse")
    /\ UNCHANGED <<current, osRegistered, handlers, events, res, ret,
                   calls, lastMut, succeeded>>

\* line 42: let _ = on_shortcut(sc, |_, _, _| {}), the result is dropped
RegCleanupHandler(p) ==
    /\ pc[p] = "r_cleanup_handler"
    /\ \E ok \in BOOLEAN :
          OnShortcut(p, Parse(current), EmptyHandler, ok, FALSE)
    /\ Goto(p, "r_cleanup_unregister")
    /\ UNCHANGED <<current, lockOwner, events, arg, snap, res, ret, lastMut,
                   succeeded>>

\* RegCleanupUnregister with `?` in place of `let _ =`: a failed
\* unregistration of the old shortcut ends the call
RegCleanupUnregisterChecked(p) ==
    /\ pc[p] = "r_cleanup_unregister"
    /\ \E ok \in BOOLEAN :
          /\ OsUnregister(p, Parse(current), ok, TRUE)
          /\ IF ok
             THEN Goto(p, "r_parse") /\ UNCHANGED res
             ELSE Goto(p, "r_ret") /\ SetRes(p, ErrUnregister)
    /\ UNCHANGED <<current, lockOwner, events, arg, snap, ret, lastMut,
                   succeeded>>

\* line 43: let _ = unregister(sc), the result is dropped
RegCleanupUnregister(p) ==
    /\ pc[p] = "r_cleanup_unregister"
    /\ \E ok \in BOOLEAN : OsUnregister(p, Parse(current), ok, FALSE)
    /\ Goto(p, "r_parse")
    /\ UNCHANGED <<current, lockOwner, events, arg, snap, res, ret, lastMut,
                   succeeded>>

\* RegParse without the `?` of line 50: the text goes on unvalidated
RegParseLenient(p) ==
    /\ pc[p] = "r_parse"
    /\ Goto(p, IF Parses(arg[p]) THEN "r_install" ELSE "r_store")
    /\ UNCHANGED <<current, lockOwner, osRegistered, handlers, events, arg,
                   snap, res, ret, calls, lastMut, succeeded>>

\* line 48-50: parse the new text, `?` returns the error
RegParse(p) ==
    /\ pc[p] = "r_parse"
    /\ IF Parses(arg[p])
       THEN Goto(p, "r_install") /\ UNCHANGED res
       ELSE Goto(p, "r_ret") /\ SetRes(p, ErrInvalidFormat)
    /\ UNCHANGED <<current, lockOwner, osRegistered, handlers, events, arg,
                   snap, ret, calls, lastMut, succeeded>>

\* line 55-68: install the press/release callback, `?` returns the error
RegInstall(p) ==
    /\ pc[p] = "r_install"
    /\ \E ok \in BOOLEAN :
          /\ OnShortcut(p, Parse(arg[p]), EmitHandler, ok, TRUE)
          /\ IF ok
             THEN Goto(p, "r_register") /\ UNCHANGED res
             ELSE Goto(p, "r_ret") /\ SetRes(p, ErrRegister)
    /\ UNCHANGED <<current, lockOwner, events, arg, snap, ret, lastMut,
                   succeeded>>

\* RegRegister with line 74 moved before the OS call: the new text is stored
\* whether or not the registration succeeds
RegRegisterStoresFirst(p) ==
    /\ pc[p] = "r_register"
    /\ current' = arg[p]
    /\ \E ok \in BOOLEAN :
          /\ OsRegister(p, Parse(arg[p]), ok, TRUE)
          /\ IF ok
             THEN Goto(p, "r_ret") /\ SetRes(p, Ok)
             ELSE Goto(p, "r_ret") /\ SetRes(p, ErrRegister)
    /\ UNCHANGED <<lockOwner, events, arg, snap, ret, lastMut, succeeded>>

\* line 70-72: register with the OS, `?` returns the error
RegRegister(p) ==
    /\ pc[p] = "r_register"
    /\ \E ok \in BOOLEAN :
          /\ OsRegister(p, Parse(arg[p]), ok, TRUE)
          /\ IF ok
             THEN Goto(p, "r_store") /\ UNCHANGED res
             ELSE Goto(p, "r_ret") /\ SetRes(p, ErrRegister)
    /\ UNCHANGED <<current, lockOwner, events, arg, snap, ret, lastMut,
                   succeeded>>

\* RegStore without the write of line 74
RegStoreSkipped(p) ==
    /\ pc[p] = "r_store"
    /\ SetRes(p, Ok)
    /\ Goto(p, "r_ret")
    /\ UNCHANGED <<current, lockOwner, osRegistered, handlers, events, arg,
                   snap, ret, calls, lastMut, succeeded>>

\* line 74-77: *current = Some(shortcut); Ok(())
RegStore(p) ==
    /\ pc[p] = "r_store"
    /\ current' = arg[p]
    /\ SetRes(p, Ok)
    /\ Goto(p, "r_ret")
    /\ UNCHANGED <<lockOwner, osRegistered, handlers, events, arg, snap, ret,
                   calls, lastMut, succeeded>>

\* the return at line 50, 68, 72 or 77
RegReturn(p) ==
    /\ pc[p] = "r_ret"
    /\ Finish(p)
    /\ lastMut' = [op |-> "register", res |-> res[p],
                   arg |-> IF res[p] = Ok THEN arg[p] ELSE NoArg]
    /\ succeeded' = IF res[p] = Ok THEN succeeded \cup {arg[p]} ELSE succeeded
    /\ UNCHANGED <<current, osRegistered, handlers, events>>

----------------------------------------------------------------------------
(* unregister_global_hotkey(app, state) *)

UnregCall(p) == Begin(p, "u_lock", NoArg)

\* UnregLock with line 100 moved inside the `if let Ok` of line 88: a stored
\* text that does not parse is left as it is
UnregLockKeepsUnparsed(p) ==
    /\ pc[p] = "u_lock"
    /\ Lock(p)
    /\ IF current = None \/ ~Parses(current)
       THEN Goto(p, "u_ret") /\ SetRes(p, Ok)
       ELSE Goto(p, "u_handler") /\ UNCHANGED res
    /\ UNCHANGED <<current, osRegistered, handlers, events, arg, ret, calls,
                   lastMut, succeeded>>

\* UnregLock treating "nothing stored" as a failure to unregister
UnregLockNoneIsError(p) ==
    /\ pc[p] = "u_lock"
    /\ Lock(p)
    /\ IF current = None
       THEN Goto(p, "u_ret") /\ SetRes(p, ErrUnregister)
       ELSE /\ Goto(p, IF Parses(current) THEN "u_handler" ELSE "u_clear")
            /\ UNCHANGED res
    /\ UNCHANGED <<current, osRegistered, handlers, events, arg, ret, calls,
                   lastMut, succeeded>>

\* line 85-88: take the lock, look at the stored shortcut and re-parse it
UnregLock(p) ==
    /\ pc[p] = "u_lock"
    /\ Lock(p)
    /\ IF current = None
       THEN Goto(p, "u_ret") /\ SetRes(p, Ok)
       ELSE /\ Goto(p, IF Parses(current) THEN "u_handler" ELSE "u_clear")
            /\ UNCHANGED res
    /\ UNCHANGED <<current, osRegistered, handlers, events, arg, ret, calls,
                   lastMut, succeeded>>

\* line 90-92: replace the callback by an empty one, `?` returns the error
UnregHandler(p) ==
    /\ pc[p] = "u_handler"
    /\ \E ok \in BOOLEAN :
          /\ OnShortcut(p, Parse(current), EmptyHandler, ok, TRUE)
          /\ IF ok
             THEN Goto(p, "u_unregister") /\ UNCHANGED res
             ELSE Goto(p, "u_ret") /\ SetRes(p, ErrRemoveHandler)
    /\ UNCHANGED <<current, lockOwner, events, arg, snap, ret, lastMut,
                   succeeded>>

\* UnregUnregister with line 100 moved before the OS call: the stored text is
\* cleared whether or not the unregistration succeeds
UnregUnregisterClearsFirst(p) ==
    /\ pc[p] = "u_unregister"
    /\ current' = None
    /\ \E ok \in BOOLEAN :
          /\ OsUnregister(p, Parse(current), ok, TRUE)
          /\ IF ok
             THEN Goto(p, "u_ret") /\ SetRes(p, Ok)
             ELSE Goto(p, "u_ret") /\ SetRes(p, ErrUnregister)
    /\ UNCHANGED <<lockOwner, events, arg, snap, ret, lastMut, succeeded>>

\* line 95-97: unregister from the OS, `?` returns the error
UnregUnregister(p) ==
    /\ pc[p] = "u_unregister"
    /\ \E ok \in BOOLEAN :
          /\ OsUnregister(p, Parse(current), ok, TRUE)
          /\ IF ok
             THEN Goto(p, "u_clear") /\ UNCHANGED res
             ELSE Goto(p, "u_ret") /\ SetRes(p, ErrUnregister)
    /\ UNCHANGED <<current, lockOwner, events, arg, snap, ret, lastMut,
                   succeeded>>

\* line 100-104: *current = None; Ok(())
UnregClear(p) ==
    /\ pc[p] = "u_clear"
    /\ current' = None
    /\ SetRes(p, Ok)
    /\ Goto(p, "u_ret")
    /\ UNCHANGED <<lockOwner, osRegistered, handlers, events, arg, snap, ret,
                   calls, lastMut, succeeded>>

\* the return at line 92, 97 or 104
UnregReturn(p) ==
    /\ pc[p] = "u_ret"
    /\ Finish(p)
    /\ lastMut' = [op |-> "unregister", arg |-> NoArg, res |-> res[p]]
    /\ UNCHANGED <<current, osRegistered, handlers, events, succeeded>>

----------------------------------------------------------------------------
(* get_current_hotkey(state) *)

GetCall(p) == Begin(p, "g_lock", NoArg)

\* GetLock reading without waiting for the Mutex
GetLockFree(p) ==
    /\ pc[p] = "g_lock"
    /\ snap' = [snap EXCEPT ![p] = current]
    /\ Goto(p, "g_read")
    /\ UNCHANGED <<current, lockOwner, osRegistered, handlers, events, arg,
                   res, ret, calls, lastMut, succeeded>>

\* line 111
GetLock(p) ==
    /\ pc[p] = "g_lock"
    /\ Lock(p)
    /\ Goto(p, "g_read")
    /\ UNCHANGED <<current, osRegistered, handlers, events, arg, res, ret,
                   calls, lastMut, succeeded>>

\* line 112: Ok(current.clone())
GetRead(p) ==
    /\ pc[p] = "g_read"
    /\ ret' = [ret EXCEPT ![p] = current]
    /\ SetRes(p, Ok)
    /\ Goto(p, "g_ret")
    /\ UNCHANGED <<current, lockOwner, osRegistered, handlers, events, arg,
                   snap, calls, lastMut, succeeded>>

\* the return at line 112
GetReturn(p) ==
    /\ pc[p] = "g_ret"
    /\ Finish(p)
    /\ UNCHANGED <<current, osRegistered, handlers, events, lastMut,
                   succeeded>>

----------------------------------------------------------------------------
(* The system *)

Register(p) ==
    \/ RegCall(p)
    \/ \E t \in Texts : RegLock(p, t)
    \/ RegCleanupHandler(p)
    \/ RegCleanupUnregister(p)
    \/ RegParse(p)
    \/ RegInstall(p)
    \/ RegRegister(p)
    \/ RegStore(p)
    \/ RegReturn(p)

Unregister(p) ==
    \/ UnregCall(p)
    \/ UnregLock(p)
    \/ UnregHandler(p)
    \/ UnregUnregister(p)
    \/ UnregClear(p)
    \/ UnregReturn(p)

GetCurrent(p) ==
    \/ GetCall(p)
    \/ GetLock(p)
    \/ GetRead(p)
    \/ GetReturn(p)

Notification ==
    \E d \in Descriptors, state \in {"Pressed", "Released"} : Notify(d, state)

Next ==
    \/ \E p \in Callers : Register(p)
    \/ \E p \in Callers : Unregister(p)
    \/ \E p \in Callers : GetCurrent(p)
    \/ Notification

Spec == Init /\ [][Next]_vars

SpecStored == InitStored /\ [][Next]_vars

\* A caller takes the lock it is waiting for
LockStep(p) ==
    \/ \E t \in Texts : RegLock(p, t)
    \/ UnregLock(p)
    \/ GetLock(p)

\* A caller that holds the lock takes the next step of its handler
HandlerStep(p) ==
    \/ RegCleanupHandler(p)
    \/ RegCleanupUnregister(p)
    \/ RegParse(p)
    \/ RegInstall(p)
    \/ RegRegister(p)
    \/ RegStore(p)
    \/ RegReturn(p)
    \/ UnregHandler(p)
    \/ UnregUnregister(p)
    \/ UnregClear(p)
    \/ UnregReturn(p)
    \/ GetRead(p)
    \/ GetReturn(p)

\* Fair scheduling: a handler that can take a step takes one (the worker
\* running it is not stopped and every OS subsystem call returns), and a
\* caller that finds the lock free again and again gets it.  Nothing obliges
\* the front-end to invoke a command or the OS to report a key.
FairSpec ==
    /\ Spec
    /\ \A p \in Callers : WF_vars(HandlerStep(p))
    /\ \A p \in Callers : SF_vars(LockStep(p))

----------------------------------------------------------------------------
(* Type invariant *)

TypeOK ==
    /\ current \in Texts \cup {None}
    /\ lockOwner \in Callers \cup {NoOwner}
    /\ osRegistered \subseteq Descriptors
    /\ handlers \in [Descriptors -> {NoHandler, EmptyHandler, EmitHandler}]
    /\ Len(events) <= MaxEvents
    /\ \A p \in Callers :
          /\ arg[p] \in Texts \cup {NoArg}
          /\ snap[p] \in Texts \cup {None}
          /\ res[p] \in Results \cup {Pending}
          /\ ret[p] \in Texts \cup {None}
    /\ succeeded \subseteq Texts

----------------------------------------------------------------------------
(* Positions of a caller *)

AtRegReturn(p) == pc[p] = "r_ret"
AtUnregReturn(p) == pc[p] = "u_ret"
AtGetReturn(p) == pc[p] = "g_ret"

\* The last register or unregister to return was a successful register
LastRegisterOk == lastMut.op = "register" /\ lastMut.res = Ok

\* A stored text that the parser rejects
Unparsed(t) == t # None /\ ~Parses(t)

----------------------------------------------------------------------------
(* C1 *)

\* C1 as stated: every register call whose text parses returns success, and
\* a get_current_hotkey that follows a register(s) returns Some(s).
C1_RegisterAlwaysSucceeds ==
    /\ \A p \in Callers :
          (AtRegReturn(p) /\ Parses(arg[p])) => res[p] = Ok
    /\ \A p \in Callers :
          (AtGetReturn(p) /\ LastRegisterOk) => ret[p] = lastMut.arg

\* C1, amended: for every text s that parses and from any prior state, when
\* register_global_hotkey(s) returns success, a get_current_hotkey issued
\* next (no register or unregister in between) returns Some(s), the text as
\* passed.
C1_RegisterThenGet ==
    /\ \A p \in Callers :
          (AtRegReturn(p) /\ res[p] = Ok) =>
              Parses(arg[p]) /\ current = arg[p]
    /\ \A p \in Callers :
          (AtGetReturn(p) /\ LastRegisterOk) =>
              ret[p] = lastMut.arg /\ res[p] = Ok

\* A get_current_hotkey returns "ctrl+k" right after register("ctrl+k")
\* replaced an earlier shortcut.
C1_Witness ==
    \E p \in Callers :
        /\ AtGetReturn(p)
        /\ LastRegisterOk
        /\ lastMut.arg = "ctrl+k"
        /\ ret[p] = "ctrl+k"
        /\ "Ctrl+J" \in succeeded

----------------------------------------------------------------------------
(* C2 *)

\* C2: when register(s2) returns success right after register(s1) returned
\* success, exactly one shortcut is registered with the OS, it is s2's, and
\* the stored text is s2.
C2_ReplaceLeavesOne ==
    \A p \in Callers :
        (AtRegReturn(p) /\ res[p] = Ok /\ LastRegisterOk) =>
            /\ osRegistered = {Parse(arg[p])}
            /\ current = arg[p]

----------------------------------------------------------------------------
(* C3 *)

\* C3: in every reachable state the OS subsystem has at most one shortcut
\* registered by this component.
C3_AtMostOneRegistered == Cardinality(osRegistered) <= 1

----------------------------------------------------------------------------
(* C4 *)

\* C4: whenever no operation holds the lock, Current Shortcut is Some(s) iff
\* s is the one shortcut registered with the OS, and None iff none is.
C4_StoredInSyncWithOs ==
    lockOwner = NoOwner =>
        /\ (current = None <=> osRegistered = {})
        /\ (current # None => osRegistered = {Parse(current)})

----------------------------------------------------------------------------
(* C5 *)

----------------------------------------------------------------------------
(* C6 *)

\* C6: every unregister call that returns success leaves no shortcut
\* registered with the OS by this component and the Current Shortcut None.
C6_UnregisterLeavesNothing ==
    \A p \in Callers :
        (AtUnregReturn(p) /\ res[p] = Ok) =>
            /\ osRegistered = {}
            /\ current = None

----------------------------------------------------------------------------
(* C7 *)

\* The result and the stored text a call leaves, as its sequential
\* specification gives them from the stored text `before` the call.
SeqStored(p, before) ==
    CASE AtRegReturn(p) -> IF res[p] = Ok THEN arg[p] ELSE before
      [] AtUnregReturn(p) -> IF res[p] = Ok THEN None ELSE before
      [] OTHER -> before

\* C7: calls take effect one at a time in the order they take the lock: a
\* call about to return has found the stored text as the previous call left
\* it and leaves it as its own sequential specification says, with no step of
\* another call in between; and get_current_hotkey returns the stored text it
\* found, which is None or the argument of a register call that has returned
\* success; no caller finds the lock free with any other text stored.
C7_Linearizable ==
    /\ \A p \in Callers :
          (AtRegReturn(p) \/ AtUnregReturn(p) \/ AtGetReturn(p)) =>
              /\ lockOwner = p
              /\ current = SeqStored(p, snap[p])
    /\ \A p \in Callers :
          AtGetReturn(p) =>
              /\ ret[p] = snap[p]
              /\ ret[p] \in succeeded \cup {None}
    /\ lockOwner = NoOwner => current \in succeeded \cup {None}

\* A get_current_hotkey returns a stored text while another caller's
\* register is waiting for the lock.
C7_Witness ==
    \E p, q \in Callers :
        /\ p # q
        /\ AtGetReturn(p)
        /\ ret[p] = "Ctrl+J"
        /\ pc[q] = "r_lock"

----------------------------------------------------------------------------
(* C8 *)

\* C8: the event sequence changes only by a press or release notification
\* running the emitting callback, which appends exactly one event,
\* "hotkey-pressed" for a press and "hotkey-released" for a release (no step
\* of register, unregister or get_current emits); and once register(s) has
\* returned success, until another operation takes the lock, every
\* notification for s appends exactly that one event.
C8_OneEventPerNotification ==
    [][ /\ events' # events =>
               \E d \in Descriptors, state \in {"Pressed", "Released"} :
                   /\ Notify(d, state)
                   /\ handlers[d] = EmitHandler
                   /\ events' = Append(events, EventName(state))
        /\ \A d \in Descriptors, state \in {"Pressed", "Released"} :
               ( /\ Notify(d, state)
                 /\ LastRegisterOk
                 /\ lockOwner = NoOwner
                 /\ d = Parse(lastMut.arg) ) =>
                   events' = Append(events, EventName(state)) ]_vars

\* After register("Ctrl+K") returned success, a release notification has put
\* "hotkey-released" on the bus.
C8_Witness ==
    /\ LastRegisterOk
    /\ lastMut.arg = "Ctrl+K"
    /\ lockOwner = NoOwner
    /\ "CONTROL+KeyK" \in osRegistered
    /\ events = <<"hotkey-released">>

----------------------------------------------------------------------------
(* C9 *)

\* The OS calls that install the emitting callback or register a shortcut
NewShortcutCalls(p) ==
    {i \in 1..Len(calls[p]) :
        \/ calls[p][i].call = "register"
        \/ calls[p][i].call = "on_shortcut" /\ calls[p][i].h = EmitHandler}

\* C9: register with a text that does not parse returns the error "Invalid
\* shortcut format: ..."; a Current Shortcut that was None is still None; and
\* the call registers no shortcut and installs no emitting callback.
C9_InvalidTextRejected ==
    \A p \in Callers :
        (AtRegReturn(p) /\ ~Parses(arg[p])) =>
            /\ res[p] = ErrInvalidFormat
            /\ snap[p] = None => current = None
            /\ NewShortcutCalls(p) = {}
            /\ snap[p] = None => calls[p] = <<>>

\* register("not a valid shortcut") is about to return, nothing having been
\* stored before.
C9_Witness ==
    \E p \in Callers :
        /\ AtRegReturn(p)
        /\ arg[p] = "not a valid shortcut"
        /\ snap[p] = None
        /\ res[p] = ErrInvalidFormat

----------------------------------------------------------------------------
(* C10 *)

\* C10: when s_old is stored and register is called with a text that does
\* not parse, the call fails, the Current Shortcut is still Some(s_old), and
\* no shortcut is registered with the OS any more.
C10_FailedReplaceLeavesNoneActive ==
    \A p \in Callers :
        (AtRegReturn(p) /\ snap[p] # None /\ ~Parses(arg[p])) =>
            /\ res[p] = ErrInvalidFormat
            /\ current = snap[p]
            /\ osRegistered = {}

----------------------------------------------------------------------------
(* C11 *)

\* C11: unregister called when no shortcut is stored returns success, makes
\* no call to the OS subsystem and leaves the Current Shortcut None; a
\* repeated call finds the same state and does the same.
C11_UnregisterIdleIsNoOp ==
    \A p \in Callers :
        (AtUnregReturn(p) /\ snap[p] = None) =>
            /\ res[p] = Ok
            /\ calls[p] = <<>>
            /\ current = None

\* unregister is about to return from the empty state for the second time
\* in a row.
C11_Witness ==
    \E p \in Callers :
        /\ AtUnregReturn(p)
        /\ snap[p] = None
        /\ res[p] = Ok
        /\ lastMut = [op |-> "unregister", arg |-> NoArg, res |-> Ok]
        /\ succeeded = {}

----------------------------------------------------------------------------
(* C12 *)

\* The caller is past its lock() and has not returned
InCritical(p) == pc[p] \notin {"idle", "r_lock", "u_lock", "g_lock"}

\* C12: a caller that is anywhere between its lock() and its return holds the
\* lock, so at most one is; the lock is given up only by the return of its
\* holder; and the stored text, the OS registrations and the installed
\* callbacks change only by a step of the caller that holds the lock, no
\* other caller moving in that step.
C12_MutualExclusion ==
    /\ [](\A p \in Callers : InCritical(p) => lockOwner = p)
    /\ [][ \A p \in Callers :
               (lockOwner = p /\ lockOwner' # p) =>
                   /\ pc[p] \in {"r_ret", "u_ret", "g_ret"}
                   /\ pc'[p] = "idle" ]_vars
    /\ [][ (current' # current \/ osRegistered' # osRegistered
               \/ handlers' # handlers) =>
               /\ lockOwner # NoOwner
               /\ lockOwner' = lockOwner
               /\ pc'[lockOwner] # pc[lockOwner]
               /\ \A q \in Callers \ {lockOwner} : pc'[q] = pc[q] ]_vars

\* One caller is between installing the callback and registering with the
\* OS while another caller's unregister waits for the lock.
C12_Witness ==
    \E p, q \in Callers :
        /\ p # q
        /\ pc[p] = "r_register"
        /\ lockOwner = p
        /\ pc[q] = "u_lock"
        /\ current # None

----------------------------------------------------------------------------
(* C13 *)

\* The running call of p has made the OS call `name` with callback h and
\* seen the result r
HasCall(p, name, h, r) ==
    \E i \in 1..Len(calls[p]) :
        calls[p][i] = OsCall(name, Parse(arg[p]), h, r)

\* Installing the callback and registering the new shortcut both succeeded
NewShortcutInstalled(p) ==
    /\ HasCall(p, "on_shortcut", EmitHandler, "ok")
    /\ HasCall(p, "register", NoHandler, "ok")

\* C13: no cleanup outcome makes register fail.  A register call whose text
\* parses always goes on to install the callback; it returns success and has
\* stored the new text whenever installing the callback and registering the
\* new shortcut succeeded; and an error it returns is "Invalid shortcut
\* format" for a text that does not parse or "Failed to register shortcut"
\* for a failed installation or registration of the new shortcut.
C13_CleanupNeverBlocks ==
    \A p \in Callers :
        AtRegReturn(p) =>
            /\ Parses(arg[p]) =>
                   \E r \in {"ok", "err"} :
                       HasCall(p, "on_shortcut", EmitHandler, r)
            /\ NewShortcutInstalled(p) => (res[p] = Ok /\ current = arg[p])
            /\ res[p] # Ok =>
                   \/ ~Parses(arg[p]) /\ res[p] = ErrInvalidFormat
                   \/ /\ res[p] = ErrRegister
                      /\ \/ HasCall(p, "on_shortcut", EmitHandler, "err")
                         \/ HasCall(p, "register", NoHandler, "err")

\* register("Ctrl+J") is about to return success although neither the
\* callback removal nor the OS unregistration of the stored "Ctrl+K" took
\* effect.
C13_Witness ==
    \E p \in Callers :
        /\ AtRegReturn(p)
        /\ res[p] = Ok
        /\ snap[p] = "Ctrl+K"
        /\ arg[p] = "Ctrl+J"
        /\ "CONTROL+KeyK" \in osRegistered
        /\ handlers["CONTROL+KeyK"] = EmitHandler

----------------------------------------------------------------------------
(* C14 *)

\* The names and seen results of the OS calls of p's running call, in order
CallTrace(p) == [i \in 1..Len(calls[p]) |-> <<calls[p][i].call, calls[p][i].r>>]

\* C14: an unregister call that fails returns "Failed to remove handler"
\* after a failed callback removal, without attempting the OS
\* unregistration, or "Failed to unregister" after a failed OS
\* unregistration; either way the Current Shortcut is as it was before the
\* call.
C14_UnregisterFailureKeepsState ==
    \A p \in Callers :
        (AtUnregReturn(p) /\ res[p] # Ok) =>
            /\ current = snap[p]
            /\ current # None
            /\ \/ /\ res[p] = ErrRemoveHandler
                  /\ CallTrace(p) = << <<"on_shortcut", "err">> >>
               \/ /\ res[p] = ErrUnregister
                  /\ CallTrace(p) = << <<"on_shortcut", "ok">>,
                                       <<"unregister", "err">> >>

\* unregister is about to return "Failed to unregister" with "Ctrl+J" still
\* stored.
C14_Witness ==
    \E p \in Callers :
        /\ AtUnregReturn(p)
        /\ res[p] = ErrUnregister
        /\ snap[p] = "Ctrl+J"
        /\ current = "Ctrl+J"

----------------------------------------------------------------------------
(* C15 *)

\* The OS calls p's running register has made for the new shortcut, after
\* the cleanup calls (whose results are dropped)
NewCallTrace(p) ==
    SelectSeq(CallTrace(p), LAMBDA c : c[2] # "dropped")

\* C15: a register call that fails at the callback installation or at the OS
\* registration returns "Failed to register shortcut" and has not written
\* the Current Shortcut, which is as before the call; after a failed
\* installation the OS registration is not attempted.  The stored text is
\* written only by a call that returns success.
C15_RegisterFailureKeepsStored ==
    \A p \in Callers :
        AtRegReturn(p) =>
            /\ res[p] = ErrRegister =>
                   /\ current = snap[p]
                   /\ \/ NewCallTrace(p) = << <<"on_shortcut", "err">> >>
                      \/ NewCallTrace(p) = << <<"on_shortcut", "ok">>,
                                              <<"register", "err">> >>
            /\ (\E i \in 1..Len(calls[p]) : calls[p][i].r = "err") =>
                   res[p] = ErrRegister
            /\ current # snap[p] => res[p] = Ok

\* register("Ctrl+J") is about to return "Failed to register shortcut" after
\* the callback was installed and the OS registration failed, "Ctrl+K" still
\* being stored.
C15_Witness ==
    \E p \in Callers :
        /\ AtRegReturn(p)
        /\ res[p] = ErrRegister
        /\ arg[p] = "Ctrl+J"
        /\ snap[p] = "Ctrl+K"
        /\ current = "Ctrl+K"
        /\ NewCallTrace(p) = << <<"on_shortcut", "ok">>, <<"register", "err">> >>

----------------------------------------------------------------------------
(* C16 *)

\* The caller has invoked a command and waits for the lock
Waiting(p) == pc[p] \in {"r_lock", "u_lock", "g_lock"}

----------------------------------------------------------------------------
(* C17 *)

\* Some caller has begun a register call that has not returned
RegisterBegun ==
    \E p \in Callers :
        pc[p] \in {"r_lock", "r_cleanup_handler", "r_cleanup_unregister",
                   "r_parse", "r_install", "r_register", "r_store", "r_ret"}

\* C17: from the return of a successful unregister until the next register
\* call begins, no press or release notification puts an event on the bus.
C17_SilentAfterUnregister ==
    [][ (lastMut.op = "unregister" /\ lastMut.res = Ok /\ ~RegisterBegun) =>
            events' = events ]_vars

----------------------------------------------------------------------------
(* C18 *)

\* C18: the stored Current Shortcut, when present, parses, and so does every
\* stored text a handler finds; so register never skips its cleanup for a
\* stored text and unregister never reaches its write of None without having
\* removed the callback and unregistered the stored shortcut.
C18_StoredAlwaysParses ==
    /\ current = None \/ Parses(current)
    /\ \A p \in Callers :
          /\ snap[p] = None \/ Parses(snap[p])
          /\ pc[p] = "u_clear" =>
                 CallTrace(p) = << <<"on_shortcut", "ok">>,
                                   <<"unregister", "ok">> >>
          /\ (pc[p] \in {"r_parse", "r_install", "r_register", "r_store",
                         "r_ret"} /\ snap[p] # None) =>
                 /\ Len(calls[p]) >= 2
                 /\ calls[p][1] =
                        OsCall("on_shortcut", Parse(snap[p]), EmptyHandler,
                               "dropped")
                 /\ calls[p][2] =
                        OsCall("unregister", Parse(snap[p]), NoHandler,
                               "dropped")

\* unregister has re-parsed the stored "ctrl+k", removed its callback,
\* unregistered it and is about to clear it.
C18_Witness ==
    \E p \in Callers :
        /\ pc[p] = "u_clear"
        /\ snap[p] = "ctrl+k"
        /\ current = "ctrl+k"

----------------------------------------------------------------------------
(* C19 *)

\* C19: when a register call returns an error, neither an event-emitting
\* callback nor an OS registration exists for the shortcut of its argument.
C19_FailedRegisterLeavesNothing ==
    \A p \in Callers :
        (AtRegReturn(p) /\ res[p] # Ok /\ Parses(arg[p])) =>
            /\ handlers[Parse(arg[p])] # EmitHandler
            /\ Parse(arg[p]) \notin osRegistered

====
